---- MODULE Spec2Model ----
(***************************************************************************)
(* A model of zbxtpltools: the dependency resolver, the commit narrator,   *)
(* the template importer and the two entry points zbxgit2tpl (Apply) and   *)
(* zbxtpl2git (Publish).                                                   *)
(***************************************************************************)
EXTENDS Integers, Sequences, FiniteSets, TLC

(***************************************************************************)
(* Bounds of the model.                                                    *)
(***************************************************************************)
\* number of distinct template names
NumNames == 3
\* cap on the rounds of the resolver's while loop (it is unbounded on a cycle)
MaxRounds == 5
\* number of template files a run of an entry point deals with
NumFiles == 2
\* number of files a batch given to zabbix_import_templates is drawn from
MaxBatch == 3
\* number of file paths a change list is drawn from
NumPaths == 5
\* longest change list handed to construct_commit_msg on its own
MaxChanges == 3

AllNames == <<"A", "B", "C", "D", "E">>
Names == {AllNames[i] : i \in 1..NumNames}

VARIABLES
    prog,           \* which entry point runs
    pc,             \* position of the running code
    raised,         \* the exception that ended the code, "none" if none
    dependencies,   \* dict: template name -> set of names it depends on
    d,              \* resolve_dependencies: working copy of the mapping
    r,              \* resolve_dependencies: list of waves built so far
    import_order,   \* the list resolve_dependencies returned
    changes,        \* list of (filepath, flags) whose flags are not CURRENT
    commit_msg,     \* the message construct_commit_msg returned
    template_files, \* zabbix_import_templates: the files of the batch
    filepaths,      \* zabbix_import_templates: dict template name -> file
    wave,           \* index in import_order of the wave being imported
    pending,        \* members of that wave not yet iterated over
    world,          \* per file: how the last commit and the remote system relate
    branch,         \* whether the configured branch exists in the repository
    tree,           \* per file: what the working tree holds
    zapi,           \* the requests sent to the remote API, in order
    git,            \* the operations on the repository, in order
    log             \* the warnings and errors reported, in order

ctl == <<prog, pc, raised>>
resolver == <<d, r, import_order>>
narrator == <<changes, commit_msg>>
importer == <<template_files, dependencies, filepaths, wave, pending>>
env == <<world, branch, tree>>
effects == <<zapi, git, log>>

vars == <<ctl, resolver, narrator, importer, env, effects>>

\* the value of "raised" while no exception is propagating
NoError == [type |-> "none", args |-> {}]

(***************************************************************************)
(* resolve_dependencies                                                    *)
(***************************************************************************)
\* every mapping from a set of keys to sets of names
AllDepLists == UNION {[K -> SUBSET Names] : K \in SUBSET Names}

\* a resolver that forgets the values that are no keys
ResolveWave_KeysOnly(dd) == {k \in DOMAIN dd : dd[k] = {}}

\* a resolver that takes the keys with a value for the ones without
ResolveWave_Inverted(dd) ==
    (UNION {dd[k] : k \in DOMAIN dd} \ DOMAIN dd)
        \cup {k \in DOMAIN dd : dd[k] # {}}

\* the wave of one round: values that are no keys, and keys without value
ResolveWave(dd) ==
    (UNION {dd[k] : k \in DOMAIN dd} \ DOMAIN dd)
        \cup {k \in DOMAIN dd : dd[k] = {}}

\* a clean-up that tests the value after the wave is taken off
ResolveClean_TestAfter(dd, t) ==
    [k \in {x \in DOMAIN dd : dd[x] \ t # {}} |-> dd[k] \ t]

\* the mapping after one round: entries with a value, minus the wave
ResolveClean(dd, t) ==
    [k \in {x \in DOMAIN dd : dd[x] # {}} |-> dd[k] \ t]

\* d = dict((k, set(deplist[k])) for k in deplist); r = []
ResolveEnter ==
    /\ pc = "resolve_enter"
    /\ d' = dependencies
    /\ r' = <<>>
    /\ pc' = "resolve_loop"
    /\ UNCHANGED <<prog, raised, import_order, narrator, importer, env, effects>>

\* one iteration of "while d"; the loop has no bound of its own, MaxRounds
\* keeps the list of waves finite
ResolveRound ==
    /\ pc = "resolve_loop"
    /\ DOMAIN d # {}
    /\ Len(r) < MaxRounds
    /\ LET t == ResolveWave(d)
       IN /\ r' = Append(r, t)
          /\ d' = ResolveClean(d, t)
    /\ UNCHANGED <<ctl, import_order, narrator, importer, env, effects>>

\* "while d" ends; return r
ResolveReturn ==
    /\ pc = "resolve_loop"
    /\ DOMAIN d = {}
    /\ import_order' = r
    /\ pc' = IF prog = "resolve" THEN "returned" ELSE "import_loop"
    /\ UNCHANGED <<prog, raised, d, r, narrator, importer, env, effects>>

\* the variables a call of resolve_dependencies on its own does not use
IdleImport ==
    /\ template_files = <<>>
    /\ filepaths = <<>>
    /\ wave = 0
    /\ pending = {}

IdleRun ==
    /\ world = <<>>
    /\ branch = "exists"
    /\ tree = <<>>
    /\ zapi = <<>>
    /\ git = <<>>
    /\ log = <<>>

InitResolve ==
    /\ prog = "resolve"
    /\ pc = "resolve_enter"
    /\ dependencies \in AllDepLists
    /\ d = <<>>
    /\ r = <<>>
    /\ import_order = <<>>
    /\ raised = NoError
    /\ changes = <<>>
    /\ commit_msg = <<>>
    /\ IdleImport
    /\ IdleRun

NextResolve == ResolveEnter \/ ResolveRound \/ ResolveReturn

SpecResolve == InitResolve /\ [][NextResolve]_vars

(***************************************************************************)
(* zabbix_import_templates                                                 *)
(*                                                                         *)
(* File f holds the one template TplOf(f), as export_template writes it.   *)
(* What a file says about the dependencies of its template is an input,    *)
(* drawn when the file is read.                                            *)
(***************************************************************************)
\* the files of the tracked tree and of the export
Files == DOMAIN world

TplOf(f) == AllNames[f]

Range(seq) == {seq[i] : i \in 1..Len(seq)}

\* a request to the remote API
Request(op, names, file, version, ok) ==
    [op |-> op, names |-> names, file |-> file, version |-> version, ok |-> ok]

\* a record of the log
LogRecord(level, what) == [level |-> level, what |-> what]

\* an exception nobody catches ends the process
Abort(type, where) ==
    /\ pc' = "aborted"
    /\ raised' = [type |-> type, args |-> {where}]

\* lines 248-266: read the files, build "dependencies" and "filepaths"
ImportRead ==
    /\ pc = "import_enter"
    /\ \/ /\ \E deps \in [{TplOf(f) : f \in Range(template_files)} -> SUBSET Names] :
                dependencies' = deps
          /\ filepaths' = [n \in {TplOf(f) : f \in Range(template_files)} |->
                              CHOOSE f \in Range(template_files) : TplOf(f) = n]
          /\ wave' = 0
          /\ pending' = {}
          /\ pc' = "resolve_enter"
          /\ UNCHANGED raised
       \/ \* a file cannot be read or parsed
          /\ Abort("Exception", "zabbix_import_templates")
          /\ UNCHANGED <<dependencies, filepaths, wave, pending>>
    /\ UNCHANGED <<prog, template_files, resolver, narrator, env, effects>>

\* an importer that starts the next wave while members of the current one
\* are still waiting
ImportNextWave_NoBarrier ==
    /\ pc = "import_loop"
    /\ wave < Len(import_order)
    /\ wave' = wave + 1
    /\ pending' = pending \cup import_order[wave + 1]
    /\ UNCHANGED <<ctl, template_files, dependencies, filepaths, resolver,
                   narrator, env, effects>>

\* "for templates in import_order": the next wave
ImportNextWave ==
    /\ pc = "import_loop"
    /\ pending = {}
    /\ wave < Len(import_order)
    /\ wave' = wave + 1
    /\ pending' = import_order[wave + 1]
    /\ UNCHANGED <<ctl, template_files, dependencies, filepaths, resolver,
                   narrator, env, effects>>

\* an importer without the KeyError handler: a wave member that has no file
\* in the batch ends the run
ImportTemplate_NoKeyError(template) ==
    /\ pc = "import_loop"
    /\ template \in pending
    /\ pending' = pending \ {template}
    /\ IF template \notin DOMAIN filepaths
       THEN /\ Abort("KeyError", "zabbix_import_templates")
            /\ UNCHANGED <<zapi, log>>
       ELSE \E ok \in BOOLEAN :
               /\ zapi' = Append(zapi, Request("confimport", {template},
                               filepaths[template], tree[filepaths[template]], ok))
               /\ log' = IF ok THEN log
                                ELSE Append(log, LogRecord("error", template))
               /\ UNCHANGED <<pc, raised>>
    /\ UNCHANGED <<prog, template_files, dependencies, filepaths, wave, git,
                   resolver, narrator, env>>

\* an importer that lets the rejection of one import end the loop
ImportTemplate_NoCatch(template) ==
    /\ pc = "import_loop"
    /\ template \in pending
    /\ pending' = pending \ {template}
    /\ IF template \notin DOMAIN filepaths
       THEN /\ log' = Append(log, LogRecord("warning", template))
            /\ UNCHANGED <<zapi, pc, raised>>
       ELSE \E ok \in BOOLEAN :
               /\ zapi' = Append(zapi, Request("confimport", {template},
                               filepaths[template], tree[filepaths[template]], ok))
               /\ UNCHANGED log
               /\ IF ok THEN UNCHANGED <<pc, raised>>
                        ELSE Abort("Exception", "import_template")
    /\ UNCHANGED <<prog, template_files, dependencies, filepaths, wave, git,
                   resolver, narrator, env>>

\* lines 271-285: the body of "for template in templates" for one member of
\* the wave; Python fixes no order on the members of a set
ImportTemplate(template) ==
    /\ pc = "import_loop"
    /\ template \in pending
    /\ pending' = pending \ {template}
    /\ IF template \notin DOMAIN filepaths
       THEN \* KeyError: a dependency that has no file in the batch
            /\ log' = Append(log, LogRecord("warning", template))
            /\ UNCHANGED zapi
       ELSE \* import_template: the remote system accepts or rejects
            \E ok \in BOOLEAN :
               /\ zapi' = Append(zapi, Request("confimport", {template},
                               filepaths[template], tree[filepaths[template]], ok))
               /\ log' = IF ok THEN log
                                ELSE Append(log, LogRecord("error", template))
    /\ UNCHANGED <<ctl, template_files, dependencies, filepaths, wave, git,
                   resolver, narrator, env>>

\* both loops are over; zabbix_import_templates returns
ImportReturn ==
    /\ pc = "import_loop"
    /\ pending = {}
    /\ wave = Len(import_order)
    /\ pc' = "done"
    /\ UNCHANGED <<prog, raised, resolver, narrator, importer, env, effects>>

\* the batches a call may be given: lists of distinct files
RECURSIVE FileLists(_)
FileLists(n) ==
    IF n = 0 THEN {<<>>}
    ELSE LET shorter == FileLists(n - 1)
         IN shorter \cup
            {Append(l, f) : l \in {x \in shorter : Len(x) = n - 1},
                            f \in 1..MaxBatch}

InitImport ==
    /\ prog = "import"
    /\ pc = "import_enter"
    /\ raised = NoError
    /\ template_files \in
           {l \in FileLists(MaxBatch) :
               /\ l # <<>>
               /\ \A i, j \in 1..Len(l) : i < j => l[i] < l[j]}
    /\ dependencies = <<>>
    /\ filepaths = <<>>
    /\ wave = 0
    /\ pending = {}
    /\ d = <<>>
    /\ r = <<>>
    /\ import_order = <<>>
    /\ changes = <<>>
    /\ commit_msg = <<>>
    /\ world = [f \in 1..MaxBatch |-> "differs"]
    /\ branch = "exists"
    /\ tree = [f \in 1..MaxBatch |-> "commit"]
    /\ zapi = <<>>
    /\ git = <<>>
    /\ log = <<>>

NextImport ==
    \/ ImportRead
    \/ ResolveEnter
    \/ ResolveRound
    \/ ResolveReturn
    \/ ImportNextWave
    \/ \E template \in Names : ImportTemplate(template)
    \/ ImportReturn

SpecImport == InitImport /\ [][NextImport]_vars

(***************************************************************************)
(* construct_commit_msg                                                    *)
(*                                                                         *)
(* A path is the sequence of its components and a component is a sequence  *)
(* of text tokens, so that "g1/a.json" is << <<"g1">>, <<"a", ".json">> >>.*)
(* A text is a sequence of lines and a line is a sequence of tokens.       *)
(***************************************************************************)
GIT_STATUS_CURRENT == "CURRENT"
GIT_STATUS_INDEX_NEW == "INDEX_NEW"
GIT_STATUS_INDEX_MODIFIED == "INDEX_MODIFIED"
GIT_STATUS_INDEX_DELETED == "INDEX_DELETED"
GIT_STATUS_WT_NEW == "WT_NEW"
GIT_STATUS_WT_MODIFIED == "WT_MODIFIED"
GIT_STATUS_WT_DELETED == "WT_DELETED"

IndexFlags ==
    {GIT_STATUS_INDEX_NEW, GIT_STATUS_INDEX_MODIFIED, GIT_STATUS_INDEX_DELETED}

\* the paths of the exported files: <group path>/<template name>.json
AllPaths ==
    << << <<"g1">>, <<"A", ".json">> >>,
       << <<"g1">>, <<"B", ".json">> >>,
       << <<"g2">>, <<"C", ".json">> >>,
       << <<"g1">>, <<"s">>, <<"D", ".json">> >>,
       << <<"g1">>, <<"A", ".json", "B", ".json">> >>,
       << <<"C", ".json">> >>,
       << <<"g2">>, <<"s">>, <<"B", ".json">> >> >>

status_str(flags) ==
    CASE flags = GIT_STATUS_INDEX_NEW -> "Added "
      [] flags = GIT_STATUS_INDEX_MODIFIED -> "Updated "
      [] flags = GIT_STATUS_INDEX_DELETED -> "Removed "

status_str2(flags) ==
    CASE flags = GIT_STATUS_INDEX_NEW -> " additions"
      [] flags = GIT_STATUS_INDEX_MODIFIED -> " updates"
      [] flags = GIT_STATUS_INDEX_DELETED -> " removals"

\* os.path.commonpath: the longest sequence of whole components that starts
\* every path of the list
commonpath(paths) ==
    LET shortest == CHOOSE n \in {Len(paths[i]) : i \in 1..Len(paths)} :
                        \A i \in 1..Len(paths) : n <= Len(paths[i])
        agree(n) == \A i \in 1..Len(paths) :
                        SubSeq(paths[i], 1, n) = SubSeq(paths[1], 1, n)
        k == CHOOSE n \in 0..shortest :
                 agree(n) /\ \A m \in (n+1)..shortest : ~agree(m)
    IN SubSeq(paths[1], 1, k)

\* the text of a path: its components joined by the separator
RECURSIVE JoinPath(_)
JoinPath(path) ==
    IF path = <<>> THEN <<>>
    ELSE IF Len(path) = 1 THEN path[1]
    ELSE path[1] \o <<"/">> \o JoinPath(Tail(path))

\* os.path.basename
basename(path) == path[Len(path)]

\* str.replace('.json', ''): every occurrence of the token is dropped
replace_json(text) == SelectSeq(text, LAMBDA tok : tok # ".json")

construct_commit_msg(chg) ==
    LET n == Len(chg)
        common_path == commonpath([i \in 1..n |-> chg[i][1]])
        headline ==
            <<"Performed ", ToString(n)>>
            \o (IF Cardinality({chg[i][2] : i \in 1..n}) = 1
                   THEN <<status_str2(chg[1][2])>>
                   ELSE <<" changes">>)
            \o (IF common_path # <<>>
                   THEN <<" in ">> \o JoinPath(common_path) \o <<" hostgroup">>
                   ELSE <<>>)
    IN (IF n > 1 THEN <<headline, <<>>>> ELSE <<>>)
       \o [i \in 1..n |->
             <<status_str(chg[i][2])>> \o replace_json(basename(chg[i][1]))]

\* the call of construct_commit_msg on a change list of its own
ConstructCommitMsg ==
    /\ pc = "msg_enter"
    /\ commit_msg' = construct_commit_msg(changes)
    /\ pc' = "msg_returned"
    /\ UNCHANGED <<prog, raised, changes, resolver, importer, env, effects>>

\* the lists of at most n (path, flags) records with distinct paths
RECURSIVE ChangeLists(_, _)
ChangeLists(paths, n) ==
    IF n = 0 THEN {<<>>}
    ELSE LET shorter == ChangeLists(paths, n - 1)
         IN shorter \cup
            {Append(c, <<p, f>>) :
                c \in {x \in shorter : Len(x) = n - 1},
                p \in paths, f \in IndexFlags}

DistinctPaths(chg) ==
    \A i, j \in 1..Len(chg) : i # j => chg[i][1] # chg[j][1]

InitMsg ==
    /\ prog = "msg"
    /\ pc = "msg_enter"
    /\ changes \in {c \in ChangeLists({AllPaths[i] : i \in 1..NumPaths},
                                       MaxChanges) : DistinctPaths(c)}
    /\ commit_msg = <<>>
    /\ dependencies = <<>>
    /\ d = <<>>
    /\ r = <<>>
    /\ import_order = <<>>
    /\ raised = NoError
    /\ IdleImport
    /\ IdleRun

NextMsg == ConstructCommitMsg

SpecMsg == InitMsg /\ [][NextMsg]_vars

(***************************************************************************)
(* The entry points: zbxgit2tpl.main (Apply) and zbxtpl2git.main (Publish) *)
(*                                                                         *)
(* world[f] tells how file f stands in the last commit and on the remote   *)
(* system: in neither ("absent"), in both with the same content ("same")   *)
(* or not ("differs"), or in one of them only.                             *)
(***************************************************************************)
WorldStates == {"absent", "same", "differs", "only_commit", "only_remote"}

InCommit(f) == world[f] \in {"same", "differs", "only_commit"}
OnRemote(f) == world[f] \in {"same", "differs", "only_remote"}

\* sys.exit(message): the message is printed and the process ends
Exit(where) ==
    /\ pc' = "aborted"
    /\ raised' = [type |-> "SystemExit", args |-> {where}]
    /\ log' = Append(log, LogRecord("critical", where))

\* a main that reports the failed login and goes on
Login_NoExit ==
    /\ pc = "login"
    /\ \/ /\ pc' = "rmtree"
          /\ UNCHANGED <<raised, log>>
       \/ /\ pc' = "rmtree"
          /\ log' = Append(log, LogRecord("critical", "zabbix_login"))
          /\ UNCHANGED raised
    /\ UNCHANGED <<prog, zapi, git, resolver, narrator, importer, env>>

\* main, lines 36-42: read_configfile
ReadConfig ==
    /\ pc = "read_config"
    /\ \/ /\ pc' = "login"
          /\ UNCHANGED <<raised, log>>
       \/ Exit("read_configfile")
    /\ UNCHANGED <<prog, zapi, git, resolver, narrator, importer, env>>

\* main, lines 44-48: zabbix_login
Login ==
    /\ pc = "login"
    /\ \/ /\ pc' = "rmtree"
          /\ UNCHANGED <<raised, log>>
       \/ Exit("zabbix_login")
    /\ UNCHANGED <<prog, zapi, git, resolver, narrator, importer, env>>

\* main, lines 53-61: remove the old export path
RemoveExportPath ==
    /\ pc = "rmtree"
    /\ \/ /\ pc' = "clone"
          /\ UNCHANGED <<raised, log>>
       \/ Exit("rmtree")
    /\ UNCHANGED <<prog, zapi, git, resolver, narrator, importer, env>>

\* main, lines 63-69, and git_clone_repo: clone, create the branch with an
\* initial commit if it exists nowhere, check the branch out
CloneRepo ==
    /\ pc = "clone"
    /\ \/ \* clone_repository fails
          /\ Exit("git_clone_repo")
          /\ UNCHANGED <<git, tree>>
       \/ \* the checkout fails, after the branch was created if it was missing
          /\ Exit("git_clone_repo")
          /\ git' = IF branch = "missing" THEN Append(git, "initial_commit") ELSE git
          /\ UNCHANGED tree
       \/ /\ git' = IF branch = "missing" THEN Append(git, "initial_commit") ELSE git
          /\ tree' = [f \in Files |-> IF InCommit(f) THEN "commit" ELSE "none"]
          /\ pc' = "clear_dir"
          /\ UNCHANGED <<raised, log>>
    /\ UNCHANGED <<prog, zapi, world, branch, resolver, narrator, importer>>

\* main, line 73: clear_dir empties the working tree
ClearDir ==
    /\ pc = "clear_dir"
    /\ tree' = [f \in Files |-> "none"]
    /\ pc' = "export"
    /\ UNCHANGED <<prog, raised, world, branch, resolver, narrator, importer,
                   effects>>

\* main, lines 75-79, and zabbix_get_and_export_templates: it raises when the
\* group holds no template or the API fails; the handler's sys.exit is given
\* several arguments and so raises TypeError, which ends the process too
Export ==
    /\ pc = "export"
    /\ \/ /\ \E f \in Files : OnRemote(f)
          /\ tree' = [f \in Files |-> IF OnRemote(f) THEN "export" ELSE "none"]
          /\ pc' = IF prog = "apply" THEN "status" ELSE "add_all"
          /\ UNCHANGED <<raised, log>>
       \/ /\ pc' = "aborted"
          /\ raised' = [type |-> "TypeError",
                        args |-> {"zabbix_get_and_export_templates"}]
          /\ log' = Append(log, LogRecord("critical",
                                          "zabbix_get_and_export_templates"))
          /\ UNCHANGED tree
    /\ UNCHANGED <<prog, zapi, git, world, branch, resolver, narrator, importer>>

\* the flags git gives file f while the export lies unstaged in the tree
WtFlags(f) ==
    CASE world[f] = "only_remote" -> GIT_STATUS_WT_NEW
      [] world[f] = "differs" -> GIT_STATUS_WT_MODIFIED
      [] world[f] = "only_commit" -> GIT_STATUS_WT_DELETED
      [] OTHER -> GIT_STATUS_CURRENT

\* the flags git gives file f once index.add_all has staged the export
StagedFlags(f) ==
    CASE world[f] = "only_remote" -> GIT_STATUS_INDEX_NEW
      [] world[f] = "differs" -> GIT_STATUS_INDEX_MODIFIED
      [] world[f] = "only_commit" -> GIT_STATUS_INDEX_DELETED
      [] OTHER -> GIT_STATUS_CURRENT

\* [(filepath, flags) for filepath, flags in repo.status().items()
\*     if flags != GIT_STATUS_CURRENT], over the first n files, in path order
RECURSIVE ChangesOf(_, _)
ChangesOf(flags, n) ==
    IF n = 0 THEN <<>>
    ELSE ChangesOf(flags, n - 1)
         \o (IF flags[n] # GIT_STATUS_CURRENT
                THEN << <<AllPaths[n], flags[n]>> >>
                ELSE <<>>)

\* the file of a path
FileOf(path) == CHOOSE f \in 1..Len(AllPaths) : AllPaths[f] = path

\* [os.path.join(export_path, filepath) for filepath, flags in changes
\*     if flags in wanted]
FilesFlagged(chg, wanted) ==
    LET sel == SelectSeq(chg, LAMBDA c : c[2] \in wanted)
    IN [i \in 1..Len(sel) |-> FileOf(sel[i][1])]

\* zbxgit2tpl.main, lines 81-88: the changes, and "if changes"
FindChanges ==
    /\ pc = "status"
    /\ changes' = ChangesOf([f \in Files |-> WtFlags(f)], Len(world))
    /\ pc' = IF changes' # <<>> THEN "remove" ELSE "done"
    /\ UNCHANGED <<prog, raised, commit_msg, resolver, importer, env, effects>>

\* zbxgit2tpl.main, lines 89-94, and zabbix_remove_templates: the files are
\* read, the ids of their templates are looked up; the delete call is
\* commented out.  No handler catches what the function raises.
RemoveTemplates ==
    /\ pc = "remove"
    /\ LET templates_to_remove == FilesFlagged(changes, {GIT_STATUS_WT_NEW})
           names == {TplOf(f) : f \in Range(templates_to_remove)}
       IN IF templates_to_remove = <<>>
          THEN /\ pc' = "reset"
               /\ UNCHANGED <<raised, zapi, log>>
          ELSE \/ \* a file cannot be read or parsed
                  /\ Abort("Exception", "zabbix_remove_templates")
                  /\ log' = Append(log, LogRecord("critical",
                                                  "zabbix_remove_templates"))
                  /\ UNCHANGED zapi
               \/ \* the remote system rejects the lookup
                  /\ Abort("Exception", "zabbix_remove_templates")
                  /\ log' = Append(log, LogRecord("critical",
                                                  "zabbix_remove_templates"))
                  /\ zapi' = Append(zapi,
                                Request("template.get", names, 0, "none", FALSE))
               \/ /\ zapi' = Append(zapi,
                                Request("template.get", names, 0, "none", TRUE))
                  /\ pc' = "reset"
                  /\ UNCHANGED <<raised, log>>
    /\ UNCHANGED <<prog, git, resolver, narrator, importer, env>>

\* zbxgit2tpl.main, lines 96-98: the hard reset brings the committed files
\* back; untracked files stay as they are
ResetHard ==
    /\ pc = "reset"
    /\ git' = Append(git, "reset")
    /\ tree' = [f \in Files |-> IF InCommit(f) THEN "commit" ELSE tree[f]]
    /\ pc' = "import_call"
    /\ UNCHANGED <<prog, raised, zapi, log, world, branch, resolver, narrator,
                   importer>>

\* an ImportCall that reads the flags as a Publish run does: what is new or
\* modified in the working tree is imported
ImportCall_NotInverted ==
    /\ pc = "import_call"
    /\ template_files' = FilesFlagged(changes,
                             {GIT_STATUS_WT_NEW, GIT_STATUS_WT_MODIFIED})
    /\ pc' = IF template_files' # <<>> THEN "import_enter" ELSE "done"
    /\ UNCHANGED <<prog, raised, dependencies, filepaths, wave, pending,
                   resolver, narrator, env, effects>>

\* zbxgit2tpl.main, lines 100-108: the files to import, and the call
ImportCall ==
    /\ pc = "import_call"
    /\ template_files' = FilesFlagged(changes,
                             {GIT_STATUS_WT_MODIFIED, GIT_STATUS_WT_DELETED})
    /\ pc' = IF template_files' # <<>> THEN "import_enter" ELSE "done"
    /\ UNCHANGED <<prog, raised, dependencies, filepaths, wave, pending,
                   resolver, narrator, env, effects>>

\* zbxtpl2git.main, lines 81-84: stage the export
AddAll ==
    /\ pc = "add_all"
    /\ pc' = "commit_and_push"
    /\ UNCHANGED <<prog, raised, resolver, narrator, importer, env, effects>>

\* a git_commit_and_push that does not look whether there are changes
CommitAndPush_Always ==
    /\ pc = "commit_and_push"
    /\ changes' = ChangesOf([f \in Files |-> StagedFlags(f)], Len(world))
    /\ commit_msg' = construct_commit_msg(changes')
    /\ git' = git \o <<"commit", "push">>
    /\ pc' = "done"
    /\ UNCHANGED <<prog, raised, log, zapi, resolver, importer, env>>

\* zbxtpl2git.main, lines 86-90, and git_commit_and_push; the handler's
\* sys.exit is given two arguments and so raises TypeError
CommitAndPush ==
    /\ pc = "commit_and_push"
    /\ changes' = ChangesOf([f \in Files |-> StagedFlags(f)], Len(world))
    /\ IF changes' # <<>>
       THEN /\ commit_msg' = construct_commit_msg(changes')
            /\ \/ \* create_commit fails
                  /\ Abort("TypeError", "git_commit_and_push")
                  /\ log' = Append(log, LogRecord("critical", "git_commit_and_push"))
                  /\ UNCHANGED git
               \/ \* the push fails
                  /\ Abort("TypeError", "git_commit_and_push")
                  /\ log' = Append(log, LogRecord("critical", "git_commit_and_push"))
                  /\ git' = Append(git, "commit")
               \/ /\ git' = git \o <<"commit", "push">>
                  /\ pc' = "done"
                  /\ UNCHANGED <<raised, log>>
       ELSE /\ pc' = "done"
            /\ UNCHANGED <<raised, commit_msg, git, log>>
    /\ UNCHANGED <<prog, zapi, resolver, importer, env>>

Init ==
    /\ prog \in {"apply", "publish"}
    /\ pc = "read_config"
    /\ raised = NoError
    /\ world \in [1..NumFiles -> WorldStates]
    /\ branch \in {"exists", "missing"}
    /\ branch = "missing" => \A f \in 1..NumFiles : ~InCommit(f)
    /\ tree = [f \in 1..NumFiles |-> "none"]
    /\ template_files = <<>>
    /\ dependencies = <<>>
    /\ filepaths = <<>>
    /\ wave = 0
    /\ pending = {}
    /\ d = <<>>
    /\ r = <<>>
    /\ import_order = <<>>
    /\ changes = <<>>
    /\ commit_msg = <<>>
    /\ zapi = <<>>
    /\ git = <<>>
    /\ log = <<>>

Next ==
    \/ ReadConfig
    \/ Login
    \/ RemoveExportPath
    \/ CloneRepo
    \/ ClearDir
    \/ Export
    \/ FindChanges
    \/ RemoveTemplates
    \/ ResetHard
    \/ ImportCall
    \/ ImportRead
    \/ ResolveEnter
    \/ ResolveRound
    \/ ResolveReturn
    \/ ImportNextWave
    \/ \E template \in Names : ImportTemplate(template)
    \/ ImportReturn
    \/ AddAll
    \/ CommitAndPush

Spec == Init /\ [][Next]_vars

(***************************************************************************)
(* Properties of resolve_dependencies                                      *)
(***************************************************************************)
Keys == DOMAIN dependencies

\* names that occur as a dependency but are no key of the mapping
NonKeys == UNION {dependencies[k] : k \in Keys} \ Keys

\* the mapping has a cycle among its keys: a non-empty set of keys each of
\* which depends on a member of the set (a key depending on itself included)
HasCycle ==
    \E S \in SUBSET Keys : S # {} /\ \A n \in S : dependencies[n] \cap S # {}

\* the indexes of the waves of w that hold name n
WavesOf(w, n) == {i \in 1..Len(w) : n \in w[i]}

\* the last round formed no wave although keys remain unresolved
Stalled == r # <<>> /\ r[Len(r)] = {} /\ DOMAIN d # {}

\* C1: on a mapping with a cycle among its keys the resolver stops with a
\* CycleError naming the unresolved keys as soon as a round forms no wave;
\* it does not go on iterating.
C1_CycleReported ==
    (HasCycle /\ Stalled) =>
        /\ pc = "raised"
        /\ raised = [type |-> "CycleError", args |-> DOMAIN d]

\* C2 as stated: a name that is only a dependency value, never a key, is in
\* no wave of the returned sequence.
C2_NonKeysInNoWave ==
    pc = "returned" =>
        \A x \in NonKeys : WavesOf(import_order, x) = {}

\* C2 amended: a name that is only a dependency value, never a key, is in
\* exactly one wave, the first one; {A: {C}} with C no key yields the waves
\* [{C}, {A}].
C2_NonKeysInFirstWave ==
    /\ r # <<>> => \A x \in NonKeys : WavesOf(r, x) = {1}
    /\ (pc = "returned" /\ dependencies = [k \in {"A"} |-> {"C"}]) =>
            import_order = <<{"C"}, {"A"}>>

C2_Witness ==
    /\ pc = "returned"
    /\ dependencies = [k \in {"A"} |-> {"C"}]
    /\ NonKeys = {"C"}
    /\ import_order = <<{"C"}, {"A"}>>

\* C3: on a mapping without a cycle among its keys, every dependency of a
\* name n that is itself a key lies in a wave with a strictly smaller index
\* than every wave that holds n; {A: {B}, B: {}, C: {B}} yields [{B}, {A, C}].
C3_DependenciesEarlier ==
    (pc = "returned" /\ ~HasCycle) =>
        /\ \A n \in Keys : \A m \in dependencies[n] \cap Keys :
              /\ WavesOf(import_order, m) # {}
              /\ \A i \in WavesOf(import_order, n) :
                    \A j \in WavesOf(import_order, m) : j < i
        /\ dependencies = [k \in {"A", "B", "C"} |->
                              IF k = "B" THEN {} ELSE {"B"}]
              => import_order = <<{"B"}, {"A", "C"}>>

C3_Witness ==
    /\ pc = "returned"
    /\ dependencies = [k \in {"A", "B", "C"} |-> IF k = "B" THEN {} ELSE {"B"}]
    /\ import_order = <<{"B"}, {"A", "C"}>>

\* C4: on a mapping without a cycle among its keys (dependency sets may be
\* empty and may name non-keys), every key is in exactly one wave of the
\* returned sequence; the resolver needs at most one round per key and one
\* more, so the cap on the rounds never stops it.
C4_KeysInExactlyOneWave ==
    /\ (pc = "returned" /\ ~HasCycle) =>
          \A k \in Keys : Cardinality(WavesOf(import_order, k)) = 1
    /\ (pc = "resolve_loop" /\ ~HasCycle) =>
          /\ Len(r) <= Cardinality(Keys) + 1
          /\ DOMAIN d # {} => Len(r) < MaxRounds

C4_Witness ==
    /\ pc = "returned"
    /\ ~HasCycle
    /\ Cardinality(Keys) >= 2
    /\ NonKeys # {}
    /\ \E k \in Keys : dependencies[k] = {}
    /\ \E k \in Keys : dependencies[k] \cap Keys # {}
    /\ Len(import_order) >= 2

(***************************************************************************)
(* Properties of construct_commit_msg                                      *)
(***************************************************************************)
\* the name of the object a file holds: the file name without its
\* ".json" extension (the export writes object t to "<name of t>.json")
ObjectName(path) ==
    LET b == basename(path)
    IN IF b # <<>> /\ b[Len(b)] = ".json" THEN SubSeq(b, 1, Len(b) - 1) ELSE b

VerbOf(flags) ==
    CASE flags = GIT_STATUS_INDEX_NEW -> "Added "
      [] flags = GIT_STATUS_INDEX_MODIFIED -> "Updated "
      [] flags = GIT_STATUS_INDEX_DELETED -> "Removed "

PluralOf(flags) ==
    CASE flags = GIT_STATUS_INDEX_NEW -> " additions"
      [] flags = GIT_STATUS_INDEX_MODIFIED -> " updates"
      [] flags = GIT_STATUS_INDEX_DELETED -> " removals"

\* the directories of a path
ParentOf(path) == SubSeq(path, 1, Len(path) - 1)

\* q starts p
IsPrefix(q, p) == Len(q) <= Len(p) /\ SubSeq(p, 1, Len(q)) = q

\* the common parent path of a change list: the longest directory path that
\* starts the directory of every record (<<>> when there is none)
CommonParent(chg) ==
    LET common == {q \in {SubSeq(chg[1][1], 1, k) : k \in 0..Len(chg[1][1])} :
                      \A i \in 1..Len(chg) : IsPrefix(q, ParentOf(chg[i][1]))}
    IN CHOOSE q \in common : \A q2 \in common : Len(q2) <= Len(q)

\* the headline the rules ask for on a list of n >= 2 records
HeadlineOf(chg) ==
    <<"Performed ", ToString(Len(chg))>>
    \o <<IF \A i \in 1..Len(chg) : chg[i][2] = chg[1][2]
           THEN PluralOf(chg[1][2]) ELSE " changes">>
    \o (IF CommonParent(chg) # <<>>
           THEN <<" in ">> \o JoinPath(CommonParent(chg)) \o <<" hostgroup">>
           ELSE <<>>)

\* the headline part of the message is as the rules ask
HeadlineAsRuled ==
    pc = "msg_returned" =>
        LET n == Len(changes)
            off == IF n >= 2 THEN 2 ELSE 0
        IN /\ Len(commit_msg) = off + n
           /\ n >= 2 => commit_msg[1] = HeadlineOf(changes) /\ commit_msg[2] = <<>>
           /\ \A i \in 1..n : commit_msg[off + i][1] = VerbOf(changes[i][2])

\* C10: the message has no headline for one record; for n >= 2 records a
\* headline with the count n, the pluralized status word if all records
\* share one status and "changes" otherwise, and the common parent path when
\* there is one; then one line "<Verb> <object-name>" per record, in list
\* order.
C10_CommitMsgShape ==
    pc = "msg_returned" =>
        LET n == Len(changes)
            off == IF n >= 2 THEN 2 ELSE 0
        IN /\ Len(commit_msg) = off + n
           /\ n >= 2 => commit_msg[1] = HeadlineOf(changes) /\ commit_msg[2] = <<>>
           /\ \A i \in 1..n :
                 commit_msg[off + i] =
                     <<VerbOf(changes[i][2])>> \o ObjectName(changes[i][1])

(***************************************************************************)
(* Properties of zabbix_import_templates and of the entry points           *)
(***************************************************************************)
\* the positions in zapi of the import requests for template n
ImportsOf(n) ==
    {i \in 1..Len(zapi) : zapi[i].op = "confimport" /\ zapi[i].names = {n}}

\* the positions in zapi of the imports the remote system rejected
Rejected == {i \in 1..Len(zapi) : zapi[i].op = "confimport" /\ ~zapi[i].ok}

\* C5: once the remote system has rejected the import of a template, the
\* rejection is in the log as an error naming the template, the run goes on
\* (nothing is raised and the loop has a next step), no template of the
\* batch is attempted twice, and when
\* zabbix_import_templates returns every template of the batch, whatever its
\* wave and whether or not it depends on the rejected one, has had exactly
\* one import attempt.
C5_RejectionIsolated ==
    Rejected # {} =>
        /\ pc \in {"import_loop", "done"}
        /\ raised = NoError
        /\ \A i \in Rejected :
              \E n \in zapi[i].names, j \in 1..Len(log) :
                  log[j] = LogRecord("error", n)
        /\ \A n \in DOMAIN dependencies : Cardinality(ImportsOf(n)) <= 1
        /\ pc = "import_loop" =>
              ENABLED (\/ ImportNextWave
                       \/ \E template \in Names : ImportTemplate(template)
                       \/ ImportReturn)
        /\ pc = "done" =>
              \A n \in DOMAIN dependencies : Cardinality(ImportsOf(n)) = 1

\* A is rejected first; B, in the same wave, and C, which depends on A and
\* is in the next wave, are attempted after it
C5_Witness ==
    /\ pc = "done"
    /\ dependencies = [n \in {"A", "B", "C"} |-> IF n = "C" THEN {"A"} ELSE {}]
    /\ import_order = <<{"A", "B"}, {"C"}>>
    /\ Len(zapi) = 3
    /\ zapi[1].names = {"A"} /\ ~zapi[1].ok
    /\ zapi[2].names = {"B"}
    /\ zapi[3].names = {"C"}

\* C6: when an Apply run ends, a removal request carrying the template of
\* every file flagged working-tree-new has been sent to the remote API.
C6_RemovalRequested ==
    (prog = "apply" /\ pc = "done") =>
        \A f \in Files :
            WtFlags(f) = GIT_STATUS_WT_NEW =>
                \E i \in 1..Len(zapi) :
                    zapi[i].op = "template.delete" /\ TplOf(f) \in zapi[i].names

\* the removal step of the run has failed
RemovalFailed ==
    \E i \in 1..Len(log) : log[i].what = "zabbix_remove_templates"

\* the files an Apply run is to import
FlaggedForImport ==
    {f \in Files : WtFlags(f) \in {GIT_STATUS_WT_MODIFIED, GIT_STATUS_WT_DELETED}}

\* C7: a failure of the removal step does not abort the Apply run: the run is
\* never ended by it, and when the run ends the hard reset has been done and
\* every file flagged for import has had its import attempt.
C7_RemovalBestEffort ==
    (prog = "apply" /\ RemovalFailed) =>
        /\ pc # "aborted"
        /\ pc = "done" =>
              /\ \E i \in 1..Len(git) : git[i] = "reset"
              /\ \A f \in FlaggedForImport : ImportsOf(TplOf(f)) # {}

\* at least one change record of the Publish run is not Unchanged
SomeChange == \E f \in Files : StagedFlags(f) # GIT_STATUS_CURRENT

Commits == {i \in 1..Len(git) : git[i] = "commit"}
Pushes == {i \in 1..Len(git) : git[i] = "push"}

\* C8: a Publish run never commits or pushes when every record is
\* Unchanged, never commits twice, pushes only after its commit, and a run
\* that git_commit_and_push brings to its end has made a commit if and only
\* if some record is not Unchanged, and has then pushed it.
C8_CommitIffChanges ==
    prog = "publish" =>
        /\ ~SomeChange => Commits = {} /\ Pushes = {}
        /\ Cardinality(Commits) <= 1
        /\ \A p \in Pushes : \E c \in Commits : c < p
        /\ pc = "done" => /\ Commits # {} <=> SomeChange
                          /\ Pushes # {} <=> SomeChange
        /\ Commits # {} => changes # <<>> /\ commit_msg = construct_commit_msg(changes)

C8_Witness ==
    /\ prog = "publish"
    /\ pc = "done"
    /\ SomeChange
    /\ Len(changes) >= 2
    /\ git = <<"commit", "push">>

SetupSteps ==
    {"read_configfile", "zabbix_login", "rmtree", "git_clone_repo",
     "zabbix_get_and_export_templates"}

\* a step of the setup has failed
SetupFailed ==
    \E i \in 1..Len(log) : log[i].level = "critical" /\ log[i].what \in SetupSteps

\* no removal and no import has been sent to the remote system
NoRemoteMutation ==
    \A i \in 1..Len(zapi) : zapi[i].op \notin {"template.delete", "confimport"}

\* C9 as stated: after a setup failure no removal or import has been sent to
\* the remote system and no commit or push has been made.
C9_NoMutationOnSetupFailure ==
    SetupFailed =>
        /\ NoRemoteMutation
        /\ \A i \in 1..Len(git) : git[i] \notin {"initial_commit", "commit", "push"}

\* C9 amended: a setup failure ends the run; no request at all has been sent
\* for a removal or an import, nothing has been pushed, and the only commit
\* that can have been made is the empty initial commit git_clone_repo
\* creates in the local clone when the configured branch does not exist.
C9_OnlyInitialCommitOnSetupFailure ==
    SetupFailed =>
        /\ pc = "aborted"
        /\ zapi = <<>>
        /\ \A i \in 1..Len(git) : git[i] = "initial_commit"
        /\ Len(git) <= 1
        /\ git # <<>> => branch = "missing"

C9_Witness ==
    /\ SetupFailed
    /\ pc = "aborted"
    /\ raised.args = {"zabbix_get_and_export_templates"}
    /\ git = <<"initial_commit">>

\* the loop has skipped name n: it has no file in the batch
Skipped(n) == \E j \in 1..Len(log) : log[j] = LogRecord("warning", n)

\* the import attempt for name n is over: accepted, rejected or skipped
Attempted(n) == ImportsOf(n) # {} \/ Skipped(n)

\* C11: the waves are applied strictly in sequence: whenever a member of a
\* wave has had its import attempt, every member of every earlier wave has
\* had its attempt (accepted, rejected or skipped), and in the sequence of
\* requests every import of an earlier wave comes before it; for every
\* batch and every pattern of rejections.
C11_WavesInSequence ==
    \A j \in 1..Len(import_order) : \A t \in import_order[j] :
        Attempted(t) =>
            \A i \in 1..(j - 1) : \A m \in import_order[i] :
                /\ Attempted(m)
                /\ \A p \in ImportsOf(t), q \in ImportsOf(m) : q < p

\* the first wave holds a skipped and a rejected member, and a member of the
\* second wave was attempted after them
C11_Witness ==
    /\ pc = "done"
    /\ Len(import_order) >= 2
    /\ \E m \in import_order[1] : Skipped(m)
    /\ \E m \in import_order[1] : \E q \in ImportsOf(m) : ~zapi[q].ok
    /\ \E t \in import_order[2] : ImportsOf(t) # {}

\* the positions in zapi of the import requests
Imports == {i \in 1..Len(zapi) : zapi[i].op = "confimport"}

\* the hard reset of the working tree has been made
ResetDone == \E i \in 1..Len(git) : git[i] = "reset"

\* the run is reading the files of the batch or is past it
ReadingForImport ==
    pc \in {"import_enter", "resolve_enter", "resolve_loop", "import_loop"}

\* the order of the Apply run: the files are read for import, and payloads
\* are sent, only after the hard reset, every payload is the committed
\* content of its file, and a run with changes that reaches its end has
\* made the reset
PayloadsAreCommitted ==
    prog = "apply" =>
        /\ ReadingForImport => ResetDone /\ changes # <<>>
        /\ \A i \in Imports :
              /\ ResetDone
              /\ zapi[i].version = "commit"
              /\ tree[zapi[i].file] = "commit"
        /\ (pc = "done" /\ changes # <<>>) => ResetDone

\* C12: an Apply run that has found at least one change makes the hard
\* reset, after the classification and before a file is read for import:
\* when the run has ended the reset has been made, and every payload the
\* import step has sent is the committed content of its file, never the
\* regenerated export.
C12_ResetBeforeImport ==
    prog = "apply" =>
        /\ (pc \in {"done", "aborted"} /\ changes # <<>>) => ResetDone
        /\ ReadingForImport => ResetDone
        /\ \A i \in Imports : ResetDone /\ zapi[i].version = "commit"

\* the status the classification has given file f
StatusOf(f) ==
    IF \E i \in 1..Len(changes) : changes[i][1] = AllPaths[f]
    THEN changes[CHOOSE i \in 1..Len(changes) : changes[i][1] = AllPaths[f]][2]
    ELSE GIT_STATUS_CURRENT

\* the files whose templates the run has asked the remote system about in
\* order to remove them
RemovalSet ==
    {f \in Files : \E i \in 1..Len(zapi) :
        zapi[i].op = "template.get" /\ TplOf(f) \in zapi[i].names}

\* the files the run has handed to the import step, or has sent
ImportSet ==
    Range(template_files) \cup {zapi[i].file : i \in Imports}

\* the removal step of a run with changes is over and has not failed
RemovalSetBuilt ==
    /\ changes # <<>>
    /\ \/ pc \in {"reset", "import_call", "done"}
       \/ ReadingForImport
       \/ pc = "aborted" /\ ResetDone

\* the files to import of a run with changes have been collected
ImportSetBuilt ==
    /\ changes # <<>>
    /\ \/ pc = "done"
       \/ ReadingForImport
       \/ pc = "aborted" /\ ResetDone

\* C13: in an Apply run a file flagged new in the working tree (on the remote
\* system, not in the commit) goes to the removal set and is never imported;
\* a file flagged modified or deleted in the working tree (in the commit,
\* different or absent on the remote system) goes to the import set and is
\* never removed; an unchanged file is in neither set; the sets are disjoint
\* and together hold every record of the change list.
C13_InvertedPartition ==
    prog = "apply" =>
        /\ \A f \in RemovalSet :
              /\ StatusOf(f) = GIT_STATUS_WT_NEW
              /\ world[f] = "only_remote"
        /\ \A f \in ImportSet :
              /\ StatusOf(f) \in {GIT_STATUS_WT_MODIFIED, GIT_STATUS_WT_DELETED}
              /\ world[f] \in {"differs", "only_commit"}
        /\ RemovalSet \cap ImportSet = {}
        /\ \A f \in Files :
              StatusOf(f) = GIT_STATUS_CURRENT => f \notin RemovalSet \cup ImportSet
        /\ RemovalSetBuilt =>
              \A f \in Files : StatusOf(f) = GIT_STATUS_WT_NEW => f \in RemovalSet
        /\ ImportSetBuilt =>
              /\ \A f \in Files :
                    StatusOf(f) \in {GIT_STATUS_WT_MODIFIED, GIT_STATUS_WT_DELETED}
                        => f \in Range(template_files)
              /\ \A i \in 1..Len(changes) :
                    FileOf(changes[i][1]) \in RemovalSet \cup ImportSet

\* a finished Apply run that has asked for the removal of a new file and has
\* sent the import of a modified or deleted one
C13_Witness ==
    /\ prog = "apply"
    /\ pc = "done"
    /\ \E f \in RemovalSet : StatusOf(f) = GIT_STATUS_WT_NEW
    /\ \E i \in Imports :
          StatusOf(zapi[i].file)
              \in {GIT_STATUS_WT_MODIFIED, GIT_STATUS_WT_DELETED}

\* the positions in the log of the warnings that name n
WarningsOf(n) == {j \in 1..Len(log) : log[j] = LogRecord("warning", n)}

\* C14: when a template t1 of the batch declares a dependency t2 that has no
\* file in the batch, t2 is never imported and is skipped with one warning,
\* nothing is raised, and t2 does not hold t1 back as a cycle would: t2 is
\* in the first wave, after the first round t1 no longer waits for it, t1
\* is in one later wave, its attempt comes after the warning and is not
\* blocked, and when zabbix_import_templates returns t1 has had its one
\* import attempt.
C14_ExternalDependencySkipped ==
    \A t1 \in DOMAIN dependencies :
        \A t2 \in dependencies[t1] \ DOMAIN filepaths :
            /\ raised = NoError
            /\ pc # "aborted"
            /\ ImportsOf(t2) = {}
            /\ Cardinality(WarningsOf(t2)) <= 1
            /\ (pc = "resolve_loop" /\ r # <<>>) =>
                  /\ t2 \in r[1]
                  /\ t1 \notin r[1]
                  /\ t1 \in DOMAIN d => t2 \notin d[t1]
            /\ pc \in {"import_loop", "done"} =>
                  /\ WavesOf(import_order, t2) = {1}
                  /\ \E j \in 2..Len(import_order) :
                        WavesOf(import_order, t1) = {j}
            /\ Attempted(t1) => Skipped(t2)
            /\ (pc = "import_loop" /\ t1 \in pending) =>
                  ENABLED ImportTemplate(t1)
            /\ pc = "done" =>
                  /\ Cardinality(WarningsOf(t2)) = 1
                  /\ Cardinality(ImportsOf(t1)) = 1

\* the batch is the file of A alone and A depends on B: B is skipped with a
\* warning in the first wave, A is imported in the second
C14_Witness ==
    /\ pc = "done"
    /\ template_files = <<1>>
    /\ dependencies = [n \in {"A"} |-> {"B"}]
    /\ import_order = <<{"B"}, {"A"}>>
    /\ log = <<LogRecord("warning", "B")>>
    /\ Len(zapi) = 1
    /\ zapi[1].op = "confimport" /\ zapi[1].names = {"A"} /\ zapi[1].ok
    /\ raised = NoError

====
